---- MODULE Spec2Model ----
(***************************************************************************)
(* gh-sync.mjs: synchronisation of GitHub issues with local .json + .md    *)
(* files.  The issues directory is a function from file names to file      *)
(* contents; every gh call is an input of the step that makes it.          *)
(*                                                                         *)
(* A JavaScript string is a sequence of characters, each a one-character   *)
(* TLA+ string, except that the extensions ".json" and ".md" are single    *)
(* tokens (no other token holds a "."), so that a search for the substring *)
(* '.json' is a search for the token.                                      *)
(***************************************************************************)
EXTENDS Naturals, Sequences, FiniteSets, TLC

VARIABLES
  dir,       \* the issues directory: file name -> file content
  pc,        \* "idle" (at the shell), "pullAll", "pushAll", "status" (in the loop), "exited"
  cmd,       \* the command of the running (or just ended) process
  queue,     \* the numbers the running loop has still to process
  exitCode,  \* the exit code of the process that just ended
  dir0,      \* the directory as it was when the process started
  written,   \* the files the process wrote: file name -> the content written
  done,      \* the numbers whose loop iteration the process completed, in order
  log,       \* what the latest call of pull, push, create or the status loop body did
  repeat     \* the process is pull(n) run right after a pull(n) that got the same snapshot

vars == <<dir, pc, cmd, queue, exitCode, dir0, written, done, log, repeat>>

------------------------------------------------------------------------------
(* Bounds *)

\* pull and push name the issue numbers 1..MaxId; create allocates none beyond MaxId + 1
MaxId == 2

\* longest text handed to writeMd in WriteMdSpec
MaxTextLen == 4

------------------------------------------------------------------------------
(* Strings *)

Str(s) == [t |-> "str", s |-> s]
Num(n) == [t |-> "num", n |-> n]
List(l) == [t |-> "list", l |-> l]
Null == [t |-> "null"]
Undefined == [t |-> "undefined"]

EXT_JSON == ".json"
EXT_MD == ".md"

Digits == <<"0", "1", "2", "3", "4", "5", "6", "7", "8", "9">>
LowerLetters == <<"a", "b", "c", "d", "e", "k", "l", "n", "o", "p", "s", "t", "x">>
UpperLetters == <<"A", "B", "C", "D", "E", "K", "L", "N", "O", "P", "S", "T", "X">>

Range(s) == {s[i] : i \in 1..Len(s)}

IndexOf(s, c) == CHOOSE i \in 1..Len(s) : s[i] = c

IsDigit(c) == c \in Range(Digits)

\* [a-z0-9]
IsSlugChar(c) == c \in Range(LowerLetters) \/ IsDigit(c)

\* String.prototype.toLowerCase, one character
LowerChar(c) == IF c \in Range(UpperLetters) THEN LowerLetters[IndexOf(UpperLetters, c)] ELSE c

\* String.prototype.toUpperCase, one character
UpperChar(c) == IF c \in Range(LowerLetters) THEN UpperLetters[IndexOf(LowerLetters, c)] ELSE c

toLowerCase(s) == [i \in 1..Len(s) |-> LowerChar(s[i])]

\* the decimal digits of n, as template literals print a number
RECURSIVE DecStr(_)
DecStr(n) == IF n < 10 THEN <<Digits[n + 1]>> ELSE DecStr(n \div 10) \o <<Digits[(n % 10) + 1]>>

\* parseInt(s, 10) of a string of digits
RECURSIVE parseInt(_)
parseInt(s) ==
  IF s = <<>> THEN 0
  ELSE 10 * parseInt(SubSeq(s, 1, Len(s) - 1)) + (IndexOf(Digits, s[Len(s)]) - 1)

\* content.endsWith(c)
endsWith(s, c) == Len(s) > 0 /\ s[Len(s)] = c

\* s.replace(tok, by) with a string pattern: the first occurrence only
replaceFirst(s, tok, by) ==
  IF tok \in Range(s)
  THEN LET i == CHOOSE j \in 1..Len(s) : s[j] = tok /\ \A k \in 1..(j - 1) : s[k] # tok
       IN SubSeq(s, 1, i - 1) \o by \o SubSeq(s, i + 1, Len(s))
  ELSE s

\* s.split(sep)[0]
splitFirst(s, sep) ==
  IF sep \in Range(s)
  THEN LET i == CHOOSE j \in 1..Len(s) : s[j] = sep /\ \A k \in 1..(j - 1) : s[k] # sep
       IN SubSeq(s, 1, i - 1)
  ELSE s

\* s.split(sep): the pieces between the separators
RECURSIVE split(_, _)
split(s, sep) ==
  IF sep \in Range(s)
  THEN <<splitFirst(s, sep)>> \o split(SubSeq(s, Len(splitFirst(s, sep)) + 2, Len(s)), sep)
  ELSE <<s>>

\* String.prototype.trim, on the one white-space character of the model
RECURSIVE trimStart(_)
trimStart(s) == IF s # <<>> /\ Head(s) = " " THEN trimStart(Tail(s)) ELSE s

RECURSIVE trimEnd(_)
trimEnd(s) == IF endsWith(s, " ") THEN trimEnd(SubSeq(s, 1, Len(s) - 1)) ELSE s

trim(s) == trimEnd(trimStart(s))

\* the length of the longest prefix of s whose characters all satisfy digit-ness
RECURSIVE DigitRun(_)
DigitRun(s) == IF s # <<>> /\ IsDigit(Head(s)) THEN 1 + DigitRun(Tail(s)) ELSE 0

------------------------------------------------------------------------------
(* Configuration *)

\* CONFIG.repo
Repo == <<"r">>

\* CONFIG.localOnlyFields, in the order of the array
localOnlyFields == <<"hub_projekt", "typ", "technologie_steckbrief", "related_issues", "body_file">>

------------------------------------------------------------------------------
(* JSON objects: a sequence of key/value pairs in insertion order, which is *)
(* the order JSON.stringify prints and JSON.parse restores, so two objects  *)
(* are equal exactly when writeJson produces the same bytes for them.       *)

HasKey(obj, k) == \E i \in 1..Len(obj) : obj[i].k = k

\* obj[k]
Get(obj, k) == IF HasKey(obj, k) THEN obj[CHOOSE i \in 1..Len(obj) : obj[i].k = k].v ELSE Undefined

\* a property definition in an object literal: a key that is already there keeps
\* its place and takes the new value, a new key goes last
Put(obj, k, v) ==
  IF HasKey(obj, k)
  THEN [i \in 1..Len(obj) |-> IF obj[i].k = k THEN [k |-> k, v |-> v] ELSE obj[i]]
  ELSE Append(obj, [k |-> k, v |-> v])

\* the truthiness of a JSON value (or of undefined)
Truthy(v) ==
  /\ v.t \notin {"null", "undefined"}
  /\ v.t = "str" => v.s # <<>>
  /\ v.t = "num" => v.n # 0

JsonFile(data) == [kind |-> "json", data |-> data]
TextFile(text) == [kind |-> "text", text |-> text]

------------------------------------------------------------------------------
(* Utility functions *)

\* existsSync(path)
existsSync(d, filePath) == filePath \in DOMAIN d

\* writeJson: the file holds the serialised object
writeJson(d, filePath, data) == (filePath :> JsonFile(data)) @@ d

\* writeMd appending a newline without looking at the end of the content
writeMdAlwaysAppends(d, filePath, content) ==
  (filePath :> TextFile(content \o <<"\n">>)) @@ d

\* writeMd: "Ensure content ends with newline"
writeMd(d, filePath, content) ==
  LET normalized == IF endsWith(content, "\n") THEN content ELSE content \o <<"\n">>
  IN (filePath :> TextFile(normalized)) @@ d

------------------------------------------------------------------------------
(* File discovery *)

\* the order of strcmp on the characters of the model (ASCII)
CharOrder == <<"\n", " ", "-", EXT_JSON, EXT_MD>> \o Digits \o UpperLetters \o <<"[", "]">> \o LowerLetters

RECURSIVE NameLess(_, _)
NameLess(a, b) ==
  IF b = <<>> THEN FALSE
  ELSE IF a = <<>> THEN TRUE
  ELSE IF Head(a) = Head(b) THEN NameLess(Tail(a), Tail(b))
  ELSE IndexOf(CharOrder, Head(a)) < IndexOf(CharOrder, Head(b))

\* new RegExp(`^${issueNumber}-.*\.json$`).test(f)
MatchesIssue(f, issueNumber) ==
  LET prefix == DecStr(issueNumber) \o <<"-">>
  IN /\ Len(f) > Len(prefix)
     /\ SubSeq(f, 1, Len(prefix)) = prefix
     /\ f[Len(f)] = EXT_JSON

\* f.match(/^(\d+)-.*\.json$/)
MatchesAny(f) ==
  /\ DigitRun(f) > 0
  /\ Len(f) > DigitRun(f) + 1
  /\ f[DigitRun(f) + 1] = "-"
  /\ f[Len(f)] = EXT_JSON

\* jsonFile.replace(/^\d+-/, '')
stripNumber(f) ==
  IF DigitRun(f) > 0 /\ Len(f) > DigitRun(f) /\ f[DigitRun(f) + 1] = "-"
  THEN SubSeq(f, DigitRun(f) + 2, Len(f))
  ELSE f

NoFiles == [t |-> "none"]

\* findIssueFiles: the first matching name of the directory listing, which
\* readdirSync returns sorted by name
findIssueFiles(d, issueNumber) ==
  LET matching == {f \in DOMAIN d : MatchesIssue(f, issueNumber)}
  IN IF matching = {} THEN NoFiles
     ELSE LET jsonFile == CHOOSE f \in matching : \A g \in matching \ {f} : NameLess(f, g)
          IN [t |-> "files",
              json |-> jsonFile,
              md |-> replaceFirst(jsonFile, EXT_JSON, <<EXT_MD>>),
              slug |-> replaceFirst(stripNumber(jsonFile), EXT_JSON, <<>>)]

RECURSIVE SortAsc(_)
SortAsc(S) ==
  IF S = {} THEN <<>>
  ELSE LET m == CHOOSE x \in S : \A y \in S : x <= y
       IN <<m>> \o SortAsc(S \ {m})

\* findAllIssueNumbers: the distinct numbers, ascending
findAllIssueNumbers(d) ==
  SortAsc({parseInt(SubSeq(f, 1, DigitRun(f))) : f \in {g \in DOMAIN d : MatchesAny(g)}})

\* slugify: [CTT] [Migration] Kafka -> kafka
RECURSIVE removeTags(_)
removeTags(s) ==
  IF s = <<>> THEN <<>>
  ELSE IF Head(s) = "[" /\ "]" \in Range(Tail(s))
       THEN removeTags(SubSeq(s, Len(splitFirst(Tail(s), "]")) + 3, Len(s)))
       ELSE <<Head(s)>> \o removeTags(Tail(s))

RECURSIVE dropNonSlug(_)
dropNonSlug(s) == IF s # <<>> /\ ~IsSlugChar(Head(s)) THEN dropNonSlug(Tail(s)) ELSE s

RECURSIVE hyphenate(_)
hyphenate(s) ==
  IF s = <<>> THEN <<>>
  ELSE IF IsSlugChar(Head(s)) THEN <<Head(s)>> \o hyphenate(Tail(s))
       ELSE <<"-">> \o hyphenate(dropNonSlug(s))

stripHyphens(s) ==
  LET a == IF s # <<>> /\ Head(s) = "-" THEN Tail(s) ELSE s
  IN IF endsWith(a, "-") THEN SubSeq(a, 1, Len(a) - 1) ELSE a

slugify(title) == stripHyphens(hyphenate(trim(removeTags(toLowerCase(title)))))


------------------------------------------------------------------------------
(* Inputs: what gh answers, and the arguments of the commands *)

Failed == [t |-> "failed"]

T1 == <<"[", "C", "]", " ", "K", "b">>
T2 == <<"K", "b", " ", "2">>
Titles == {T1, T2}

OPEN == <<"O", "P", "E", "N">>
CLOSED == <<"C", "L", "O", "S", "E", "D">>
States == {OPEN, CLOSED}

LabelNames == {<<"a">>, <<"b">>}

\* the lists of distinct label names
LabelLists ==
  {<<>>} \cup {<<x>> : x \in LabelNames}
         \cup {<<p[1], p[2]>> : p \in {q \in LabelNames \X LabelNames : q[1] # q[2]}}

\* ISO 8601 timestamps: a date, "T", a time
TS1 == <<"2", "0", "2", "4", "T", "0", "3">>
TS2 == <<"2", "0", "2", "5", "T", "0", "4">>

Milestone(title) == [t |-> "object", title |-> title]

\* the snapshots of one issue that `gh issue view --json number,title,...` returns
Shape1 ==
  [title |-> T1, state |-> OPEN, labels |-> <<<<"a">>, <<"b">>>>, assignees |-> <<<<"u">>>>,
   milestone |-> Null, body |-> Str(<<"x">>), createdAt |-> TS1, updatedAt |-> TS1]
Shape2 ==
  [title |-> T2, state |-> CLOSED, labels |-> <<<<"b">>>>, assignees |-> <<>>,
   milestone |-> Milestone(<<"m">>), body |-> Str(<<"x", "\n", "\n">>), createdAt |-> TS1, updatedAt |-> TS2]
Shape3 ==
  [title |-> T1, state |-> OPEN, labels |-> <<>>, assignees |-> <<>>,
   milestone |-> Milestone(<<>>), body |-> Null, createdAt |-> TS2, updatedAt |-> TS2]

IssueShapes == {Shape1, Shape2}
MoreIssueShapes == {Shape1, Shape2, Shape3}

GhIssue(number, shape) ==
  [number |-> number, title |-> shape.title, state |-> shape.state,
   labels |-> [i \in 1..Len(shape.labels) |-> [name |-> shape.labels[i]]],
   assignees |-> [i \in 1..Len(shape.assignees) |-> [login |-> shape.assignees[i]]],
   milestone |-> shape.milestone, body |-> shape.body,
   createdAt |-> shape.createdAt, updatedAt |-> shape.updatedAt]

\* what fetchIssue(issueNumber) can get: the command fails, or a snapshot of that issue
FetchResults(issueNumber) == {Failed} \cup {GhIssue(issueNumber, sh) : sh \in IssueShapes}

MoreFetchResults(issueNumber) == {Failed} \cup {GhIssue(issueNumber, sh) : sh \in MoreIssueShapes}

\* what `gh issue view --json title,state,labels,updatedAt` can return to status
StatusResults ==
  {Failed} \cup
  { [title |-> ti, state |-> st, labels |-> [i \in 1..Len(ll) |-> [name |-> ll[i]]], updatedAt |-> TS2] :
      ti \in Titles, st \in States, ll \in {<<>>, <<<<"a">>, <<"b">>>>, <<<<"b">>, <<"a">>>>} }

\* what `gh issue view --json labels` can return to syncLabels
LabelResults == {Failed} \cup {[labels |-> [i \in 1..Len(ll) |-> [name |-> ll[i]]]] : ll \in LabelLists}

\* the slugs given to create
CreateSlugs == {<<"x">>}
MoreCreateSlugs == {<<"k", "-", "x">>, <<"a", EXT_JSON>>}

\* the issue numbers of the model
PullIds == 1..MaxId

------------------------------------------------------------------------------
(* pull *)

names(labels) == [i \in 1..Len(labels) |-> labels[i].name]
logins(assignees) == [i \in 1..Len(assignees) |-> assignees[i].login]

\* ...Object.fromEntries(localOnlyFields.filter(f => localJson[f] !== undefined).map(...))
RECURSIVE spreadLocalOnly(_, _, _)
spreadLocalOnly(obj, localJson, i) ==
  IF i > Len(localOnlyFields) THEN obj
  ELSE LET f == localOnlyFields[i]
       IN spreadLocalOnly(IF Get(localJson, f).t # "undefined" THEN Put(obj, f, Get(localJson, f)) ELSE obj,
                          localJson, i + 1)

\* body_file with the extension appended to the local value too
bodyFileAppended(localJson, issueNumber, slug) ==
  LET local == Get(localJson, "body_file")
  IN IF Truthy(local)
     THEN (IF local.t = "str" THEN Str(local.s \o <<EXT_MD>>) ELSE local)
     ELSE Str(DecStr(issueNumber) \o <<"-">> \o slug \o <<EXT_MD>>)

\* body_file: localJson.body_file || `${issueNumber}-${files.slug}.md`
bodyFileOf(localJson, issueNumber, slug) ==
  IF Truthy(Get(localJson, "body_file"))
  THEN Get(localJson, "body_file")
  ELSE Str(DecStr(issueNumber) \o <<"-">> \o slug \o <<EXT_MD>>)

\* the merged JSON of pull
merged(localJson, issueNumber, slug, ghIssue) ==
  LET remote ==
        << [k |-> "issue_number", v |-> Num(ghIssue.number)],
           [k |-> "repo", v |-> Str(Repo)],
           [k |-> "title", v |-> Str(ghIssue.title)],
           [k |-> "state", v |-> Str(toLowerCase(ghIssue.state))],
           [k |-> "labels", v |-> List(names(ghIssue.labels))],
           [k |-> "assignees", v |-> List(logins(ghIssue.assignees))],
           [k |-> "milestone",
            v |-> IF ghIssue.milestone.t = "object" /\ ghIssue.milestone.title # <<>>
                  THEN Str(ghIssue.milestone.title) ELSE Null] >>
      kept == spreadLocalOnly(remote, localJson, 1)
      withBody == Put(kept, "body_file", bodyFileOf(localJson, issueNumber, slug))
  IN Put(Put(withBody, "created", Str(splitFirst(ghIssue.createdAt, "T"))),
         "updated", Str(splitFirst(ghIssue.updatedAt, "T")))

\* the files pull writes to: the local record's, or new ones named after the title
pullFiles(d, issueNumber, ghIssue) ==
  IF findIssueFiles(d, issueNumber) # NoFiles THEN findIssueFiles(d, issueNumber)
  ELSE LET slug == slugify(ghIssue.title)
       IN [t |-> "files",
           json |-> DecStr(issueNumber) \o <<"-">> \o slug \o <<EXT_JSON>>,
           md |-> DecStr(issueNumber) \o <<"-">> \o slug \o <<EXT_MD>>,
           slug |-> slug]

\* pull(issueNumber), fetched being the answer of gh: the directory it leaves, the
\* files it wrote, what it did, and whether it returned (exec exits with code 1 when
\* the fetch fails; the process dies of the exception when the local file is no JSON)
pull(d, issueNumber, fetched) ==
  IF fetched = Failed
  THEN [dir |-> d, ok |-> FALSE, written |-> <<>>,
        log |-> <<[ev |-> "fetch", id |-> issueNumber, got |-> Failed]>>]
  ELSE LET files == pullFiles(d, issueNumber, fetched)
           fetch == [ev |-> "fetch", id |-> issueNumber, got |-> fetched]
       IN IF existsSync(d, files.json) /\ d[files.json].kind # "json"
          THEN [dir |-> d, ok |-> FALSE, written |-> <<>>,
                log |-> <<fetch, [ev |-> "throw", id |-> issueNumber]>>]
          ELSE LET localJson == IF existsSync(d, files.json) THEN d[files.json].data ELSE <<>>
                   m == merged(localJson, issueNumber, files.slug, fetched)
                   body == IF Truthy(fetched.body) THEN fetched.body.s ELSE <<>>
                   out == writeMd(writeJson(<<>>, files.json, m), files.md, body)
               IN [dir |-> out @@ d, ok |-> TRUE, written |-> out,
                   log |-> <<fetch,
                             [ev |-> "write", id |-> issueNumber, path |-> files.json],
                             [ev |-> "write", id |-> issueNumber, path |-> files.md]>>]

AtShell == pc = "idle"

\* the process of `node gh-sync.mjs pull <number>`
RunPull(issueNumber, fetched) ==
  /\ LET run == pull(dir, issueNumber, fetched)
     IN /\ dir' = run.dir
        /\ written' = run.written
        /\ log' = run.log
        /\ exitCode' = IF run.ok THEN 0 ELSE 1
  /\ pc' = "exited"
  /\ cmd' = "pull"
  /\ queue' = <<>>
  /\ done' = <<>>
  /\ dir0' = dir

\* node gh-sync.mjs pull <number>
PullOne(issueNumber, fetched) ==
  /\ AtShell
  /\ RunPull(issueNumber, fetched)
  /\ repeat' = FALSE

\* the same pull run again right after it succeeded, gh returning the same snapshot
PullAgain ==
  /\ pc = "exited" /\ cmd = "pull" /\ exitCode = 0 /\ ~repeat
  /\ RunPull(log[1].id, log[1].got)
  /\ repeat' = TRUE

\* the start of a command that loops over findAllIssueNumbers()
StartLoop(command, loop) ==
  /\ AtShell
  /\ queue' = findAllIssueNumbers(dir)
  /\ pc' = IF findAllIssueNumbers(dir) = <<>> THEN "exited" ELSE loop
  /\ cmd' = command
  /\ exitCode' = 0
  /\ dir0' = dir
  /\ written' = <<>>
  /\ done' = <<>>
  /\ log' = <<>>
  /\ repeat' = FALSE
  /\ UNCHANGED dir

\* node gh-sync.mjs pull --all: the listing, before the loop
PullAllStart == StartLoop("pullAll", "pullAll")

\* the loop of pull --all going on to the next number after a failed fetch
PullAllStepSkipsFailed ==
  /\ pc = "pullAll"
  /\ \E fetched \in FetchResults(Head(queue)) :
     LET run == pull(dir, Head(queue), fetched)
     IN /\ dir' = run.dir
        /\ written' = run.written @@ written
        /\ log' = run.log
        /\ exitCode' = 0
        /\ queue' = Tail(queue)
        /\ done' = IF run.ok THEN Append(done, Head(queue)) ELSE done
        /\ pc' = IF Tail(queue) # <<>> THEN "pullAll" ELSE "exited"
  /\ UNCHANGED <<cmd, dir0, repeat>>

\* one iteration of the loop of pull --all
PullAllStep ==
  /\ pc = "pullAll"
  /\ \E fetched \in FetchResults(Head(queue)) :
     LET run == pull(dir, Head(queue), fetched)
     IN /\ dir' = run.dir
        /\ written' = run.written @@ written
        /\ log' = run.log
        /\ exitCode' = IF run.ok THEN 0 ELSE 1
        /\ queue' = IF run.ok THEN Tail(queue) ELSE queue
        /\ done' = IF run.ok THEN Append(done, Head(queue)) ELSE done
        /\ pc' = IF run.ok /\ Tail(queue) # <<>> THEN "pullAll" ELSE "exited"
  /\ UNCHANGED <<cmd, dir0, repeat>>

------------------------------------------------------------------------------
(* push *)

\* list.filter(l => !other.includes(l))
RECURSIVE filterNotIn(_, _)
filterNotIn(list, other) ==
  IF list = <<>> THEN <<>>
  ELSE IF Head(list) \in Range(other) THEN filterNotIn(Tail(list), other)
       ELSE <<Head(list)>> \o filterNotIn(Tail(list), other)

\* syncLabels removing every current label that is not one of the added ones
syncLabelsRemovesKept(issueNumber, targetLabels, currentLabels) ==
  LET toAdd == filterNotIn(targetLabels, currentLabels)
      toRemove == filterNotIn(currentLabels, toAdd)
      add == IF Len(toAdd) > 0
             THEN <<[ev |-> "add", id |-> issueNumber, labels |-> toAdd]>>
             ELSE <<>>
      remove == [i \in 1..Len(toRemove) |->
                   [ev |-> "remove", id |-> issueNumber, label |-> toRemove[i]]]
  IN add \o remove

\* syncLabels, once its view of the current labels succeeded: the add command when
\* toAdd is not empty, then one remove command per label of toRemove (execSafe: the
\* outcome of these commands changes nothing in the process)
syncLabels(issueNumber, targetLabels, currentLabels) ==
  LET toAdd == filterNotIn(targetLabels, currentLabels)
      toRemove == filterNotIn(currentLabels, targetLabels)
      add == IF Len(toAdd) > 0
             THEN <<[ev |-> "add", id |-> issueNumber, labels |-> toAdd]>>
             ELSE <<>>
      remove == [i \in 1..Len(toRemove) |->
                   [ev |-> "remove", id |-> issueNumber, label |-> toRemove[i]]]
  IN add \o remove

\* updateIssue: one edit with the title (when truthy) and the body file (when it
\* exists), fatal when it fails; then the labels, whose view is fatal when it fails
updateIssue(d, issueNumber, title, bodyFile, labels, editOk, viewed) ==
  LET edit == [ev |-> "edit", id |-> issueNumber,
               title |-> IF Truthy(title) THEN title ELSE Undefined,
               bodyFile |-> IF existsSync(d, bodyFile) THEN Str(bodyFile) ELSE Undefined,
               ok |-> editOk]
      view == [ev |-> "view", id |-> issueNumber, got |-> viewed]
  IN IF ~editOk THEN [ok |-> FALSE, log |-> <<edit>>]
     ELSE IF viewed = Failed THEN [ok |-> FALSE, log |-> <<edit, view>>]
     ELSE [ok |-> TRUE,
           log |-> <<edit, view>> \o syncLabels(issueNumber, labels, names(viewed.labels))]

\* push(issueNumber): exit code 1 without local files
push(d, issueNumber, editOk, viewed) ==
  LET files == findIssueFiles(d, issueNumber)
  IN IF files = NoFiles
     THEN [ok |-> FALSE, log |-> <<[ev |-> "nofiles", id |-> issueNumber]>>]
     ELSE IF d[files.json].kind # "json"
     THEN [ok |-> FALSE, log |-> <<[ev |-> "throw", id |-> issueNumber]>>]
     ELSE LET localJson == d[files.json].data
              labels == IF Truthy(Get(localJson, "labels")) THEN Get(localJson, "labels").l ELSE <<>>
          IN updateIssue(d, issueNumber, Get(localJson, "title"), files.md, labels, editOk, viewed)

\* what gh can answer to one push: the edit fails, or it succeeds and the view of
\* the labels fails or returns a list
PushAnswers == {<<FALSE, Failed>>} \cup {<<TRUE, v>> : v \in LabelResults}

\* node gh-sync.mjs push <number>
PushOne(issueNumber, editOk, viewed) ==
  /\ AtShell
  /\ LET run == push(dir, issueNumber, editOk, viewed)
     IN /\ log' = run.log
        /\ exitCode' = IF run.ok THEN 0 ELSE 1
  /\ pc' = "exited"
  /\ cmd' = "push"
  /\ queue' = <<>>
  /\ done' = <<>>
  /\ dir0' = dir
  /\ written' = <<>>
  /\ repeat' = FALSE
  /\ UNCHANGED dir

\* node gh-sync.mjs push --all: the listing, before the loop
PushAllStart == StartLoop("pushAll", "pushAll")

\* one iteration of the loop of push --all
PushAllStep ==
  /\ pc = "pushAll"
  /\ \E answer \in PushAnswers :
     LET run == push(dir, Head(queue), answer[1], answer[2])
     IN /\ log' = run.log
        /\ exitCode' = IF run.ok THEN 0 ELSE 1
        /\ queue' = IF run.ok THEN Tail(queue) ELSE queue
        /\ done' = IF run.ok THEN Append(done, Head(queue)) ELSE done
        /\ pc' = IF run.ok /\ Tail(queue) # <<>> THEN "pushAll" ELSE "exited"
  /\ UNCHANGED <<dir, cmd, dir0, written, repeat>>

------------------------------------------------------------------------------
(* status *)

\* Array.prototype.sort() on strings: ascending by character code
RECURSIVE sort(_)
sort(list) ==
  IF list = <<>> THEN <<>>
  ELSE LET i == CHOOSE j \in 1..Len(list) :
                  /\ \A k \in 1..Len(list) : ~NameLess(list[k], list[j])
                  /\ \A k \in 1..(j - 1) : list[k] # list[j]
       IN <<list[i]>> \o sort(SubSeq(list, 1, i - 1) \o SubSeq(list, i + 1, Len(list)))

\* the report of status comparing the label lists as they come, unsorted
statusReportUnsorted(localJson, num, result) ==
  IF result = Failed
  THEN [ev |-> "report", id |-> num, found |-> FALSE, got |-> Failed]
  ELSE LET ghLabels == names(result.labels)
           localLabels == IF Truthy(Get(localJson, "labels")) THEN Get(localJson, "labels").l ELSE <<>>
           titleMatch == Get(localJson, "title") = Str(result.title)
           labelsMatch == localLabels = ghLabels
           stateMatch == Get(localJson, "state") = Str(toLowerCase(result.state))
       IN [ev |-> "report", id |-> num, found |-> TRUE, got |-> result,
           inSync |-> titleMatch /\ labelsMatch /\ stateMatch,
           titleMatch |-> titleMatch, labelsMatch |-> labelsMatch, stateMatch |-> stateMatch]

\* what the body of the loop of status prints for one tracked number
statusReport(localJson, num, result) ==
  IF result = Failed
  THEN [ev |-> "report", id |-> num, found |-> FALSE, got |-> Failed]
  ELSE LET ghLabels == sort(names(result.labels))
           localLabels == sort(IF Truthy(Get(localJson, "labels")) THEN Get(localJson, "labels").l ELSE <<>>)
           titleMatch == Get(localJson, "title") = Str(result.title)
           labelsMatch == localLabels = ghLabels
           stateMatch == Get(localJson, "state") = Str(toLowerCase(result.state))
       IN [ev |-> "report", id |-> num, found |-> TRUE, got |-> result,
           inSync |-> titleMatch /\ labelsMatch /\ stateMatch,
           titleMatch |-> titleMatch, labelsMatch |-> labelsMatch, stateMatch |-> stateMatch]

\* node gh-sync.mjs status: the listing; "No local issues found." ends it
StatusStart == StartLoop("status", "status")

\* the loop of status looking the issue up with exec: a failed lookup ends the process
StatusStepStopsOnFailure ==
  /\ pc = "status"
  /\ \E result \in StatusResults :
     LET num == Head(queue)
         files == findIssueFiles(dir, num)
         dies == files = NoFiles \/ dir[files.json].kind # "json" \/ result = Failed
     IN /\ log' = IF dies THEN <<[ev |-> "throw", id |-> num]>>
                  ELSE <<statusReport(dir[files.json].data, num, result)>>
        /\ exitCode' = IF dies THEN 1 ELSE 0
        /\ queue' = IF dies THEN queue ELSE Tail(queue)
        /\ done' = IF dies THEN done ELSE Append(done, num)
        /\ pc' = IF ~dies /\ Tail(queue) # <<>> THEN "status" ELSE "exited"
  /\ UNCHANGED <<dir, cmd, dir0, written, repeat>>

\* one iteration of the loop of status: execSafe, so a failed lookup is reported
\* and the loop goes on
StatusStep ==
  /\ pc = "status"
  /\ \E result \in StatusResults :
     LET num == Head(queue)
         files == findIssueFiles(dir, num)
         dies == files = NoFiles \/ dir[files.json].kind # "json"
     IN /\ log' = IF dies THEN <<[ev |-> "throw", id |-> num]>>
                  ELSE <<statusReport(dir[files.json].data, num, result)>>
        /\ exitCode' = IF dies THEN 1 ELSE 0
        /\ queue' = IF dies THEN queue ELSE Tail(queue)
        /\ done' = IF dies THEN done ELSE Append(done, num)
        /\ pc' = IF ~dies /\ Tail(queue) # <<>> THEN "status" ELSE "exited"
  /\ UNCHANGED <<dir, cmd, dir0, written, repeat>>

------------------------------------------------------------------------------
(* create *)

\* w.charAt(0).toUpperCase() + w.slice(1)
capitalize(w) == IF w = <<>> THEN <<>> ELSE <<UpperChar(Head(w))>> \o Tail(w)

\* words.join(' ')
RECURSIVE join(_)
join(words) ==
  IF Len(words) = 1 THEN Head(words)
  ELSE Head(words) \o <<" ">> \o join(Tail(words))

\* `[CTT] ${slug.split('-').map(capitalize).join(' ')}`
templateTitle(slug) ==
  LET words == split(slug, "-")
  IN <<"[", "C", "T", "T", "]", " ">> \o join([i \in 1..Len(words) |-> capitalize(words[i])])

\* the Markdown template: its last character is a newline
templateMd == <<"T", "O", "D", "O", "\n">>

\* Math.max(...list)
MathMax(list) == CHOOSE x \in Range(list) : \A y \in Range(list) : y <= x

\* the next issue number taken from the count of the tracked numbers
nextNumberByCount(d) == Len(findAllIssueNumbers(d)) + 1

\* the next issue number of create
nextNumber(d) ==
  LET existing == findAllIssueNumbers(d)
  IN IF Len(existing) > 0 THEN MathMax(existing) + 1 ELSE 1

\* create(slug), now being the clock's timestamp
create(d, slug, now) ==
  LET n == nextNumber(d)
      jsonFile == DecStr(n) \o <<"-">> \o slug \o <<EXT_JSON>>
      mdFile == DecStr(n) \o <<"-">> \o slug \o <<EXT_MD>>
      json == << [k |-> "issue_number", v |-> Null],
                 [k |-> "repo", v |-> Str(Repo)],
                 [k |-> "title", v |-> Str(templateTitle(slug))],
                 [k |-> "state", v |-> Str(<<"o", "p", "e", "n">>)],
                 [k |-> "labels", v |-> List(<<>>)],
                 [k |-> "assignees", v |-> List(<<>>)],
                 [k |-> "milestone", v |-> Null],
                 [k |-> "body_file", v |-> Str(mdFile)],
                 [k |-> "created", v |-> Str(splitFirst(now, "T"))],
                 [k |-> "updated", v |-> Str(splitFirst(now, "T"))] >>
      out == writeMd(writeJson(<<>>, jsonFile, json), mdFile, templateMd)
  IN IF existsSync(d, jsonFile)
     THEN [dir |-> d, ok |-> FALSE, written |-> <<>>,
           log |-> <<[ev |-> "exists", id |-> n, path |-> jsonFile]>>]
     ELSE [dir |-> out @@ d, ok |-> TRUE, written |-> out,
           log |-> <<[ev |-> "create", id |-> n, path |-> jsonFile]>>]

\* node gh-sync.mjs create <slug>
Create(slug, now) ==
  /\ AtShell
  /\ nextNumber(dir) <= MaxId + 1
  /\ LET run == create(dir, slug, now)
     IN /\ dir' = run.dir
        /\ written' = run.written
        /\ log' = run.log
        /\ exitCode' = IF run.ok THEN 0 ELSE 1
  /\ pc' = "exited"
  /\ cmd' = "create"
  /\ queue' = <<>>
  /\ done' = <<>>
  /\ dir0' = dir
  /\ repeat' = FALSE

------------------------------------------------------------------------------
(* The tool: one process at a time, each started from the shell *)

EmptyDir == <<>>

\* the process has ended: its memory is gone, the directory stays
Return ==
  /\ pc = "exited"
  /\ pc' = "idle"
  /\ cmd' = "none"
  /\ queue' = <<>>
  /\ exitCode' = 0
  /\ dir0' = EmptyDir
  /\ written' = <<>>
  /\ done' = <<>>
  /\ log' = <<>>
  /\ repeat' = FALSE
  /\ UNCHANGED dir

Init ==
  /\ dir = EmptyDir
  /\ pc = "idle"
  /\ cmd = "none"
  /\ queue = <<>>
  /\ exitCode = 0
  /\ dir0 = EmptyDir
  /\ written = <<>>
  /\ done = <<>>
  /\ log = <<>>
  /\ repeat = FALSE

Next ==
  \/ \E n \in PullIds : \E fetched \in FetchResults(n) : PullOne(n, fetched)
  \/ PullAgain
  \/ PullAllStart
  \/ PullAllStep
  \/ \E n \in PullIds, answer \in PushAnswers : PushOne(n, answer[1], answer[2])
  \/ PushAllStart
  \/ PushAllStep
  \/ StatusStart
  \/ StatusStep
  \/ \E slug \in CreateSlugs : Create(slug, TS1)
  \/ Return

Spec == Init /\ [][Next]_vars

------------------------------------------------------------------------------
(* pull on records the user has edited, or that create made of any slug *)

\* the values a user gives a local-only field
LocalValues == {Null, Str(<<>>), Str(<<"v">>), Num(0), List(<<<<"v">>>>)}

\* the directory after pull 1 on an empty directory
PulledDir == pull(EmptyDir, 1, GhIssue(1, Shape1)).dir

\* the user sets a field of the metadata file of issue 1
UserEdit(d, key, value) ==
  LET path == findIssueFiles(d, 1).json
  IN (path :> JsonFile(Put(d[path].data, key, value))) @@ d

LocalDirs ==
  {EmptyDir, PulledDir}
    \cup {create(EmptyDir, slug, TS2).dir : slug \in MoreCreateSlugs}
    \cup {UserEdit(PulledDir, f, v) : f \in Range(localOnlyFields), v \in LocalValues}
    \cup {UserEdit(UserEdit(PulledDir, "typ", Str(<<"v">>)), "hub_projekt", Num(0))}

InitPull ==
  /\ dir \in LocalDirs
  /\ pc = "idle"
  /\ cmd = "none"
  /\ queue = <<>>
  /\ exitCode = 0
  /\ dir0 = EmptyDir
  /\ written = <<>>
  /\ done = <<>>
  /\ log = <<>>
  /\ repeat = FALSE

NextPull ==
  \/ \E n \in PullIds : \E fetched \in MoreFetchResults(n) : PullOne(n, fetched)
  \/ PullAgain
  \/ Return

PullSpec == InitPull /\ [][NextPull]_vars

------------------------------------------------------------------------------
(* writeMd on any text *)

TextChars == {"x", " ", "\n"}

Texts == UNION {[1..n -> TextChars] : n \in 0..MaxTextLen}

BodyPath == <<"1", "-", "x", EXT_MD>>

\* writeMd(filePath, content)
WriteMd(content) ==
  /\ AtShell
  /\ dir' = writeMd(dir, BodyPath, content)
  /\ written' = writeMd(<<>>, BodyPath, content)
  /\ log' = <<[ev |-> "writeMd", path |-> BodyPath, content |-> content]>>
  /\ pc' = "exited"
  /\ cmd' = "writeMd"
  /\ exitCode' = 0
  /\ dir0' = dir
  /\ UNCHANGED <<queue, done, repeat>>

NextWriteMd == \E content \in Texts : WriteMd(content)

WriteMdSpec == Init /\ [][NextWriteMd]_vars

------------------------------------------------------------------------------
(* Properties *)

\* the metadata of the local record of issue n in directory d
Record(d, n) == d[findIssueFiles(d, n).json].data

\* the issue number a file name starts with
FileNumber(p) == parseInt(SubSeq(p, 1, DigitRun(p)))

RECURSIVE TrailingNewlines(_)
TrailingNewlines(s) == IF endsWith(s, "\n") THEN 1 + TrailingNewlines(SubSeq(s, 1, Len(s) - 1)) ELSE 0

Events(kind) == {i \in 1..Len(log) : log[i].ev = kind}

PullReturned == cmd = "pull" /\ pc = "exited" /\ exitCode = 0

\* C1: every local-only field the local record holds before pull(id) is in the
\* record pull(id) writes, with the same value, whatever the value and the snapshot
C1_LocalOnlyPreserved ==
  (PullReturned /\ findIssueFiles(dir0, log[1].id) # NoFiles) =>
    LET old == Record(dir0, log[1].id)
        new == dir[findIssueFiles(dir0, log[1].id).json].data
    IN \A f \in Range(localOnlyFields) :
         HasKey(old, f) => HasKey(new, f) /\ Get(new, f) = Get(old, f)

\* C2: pull(id) run twice against the same snapshot leaves, after the second run,
\* the files of the first run, names and contents
C2_PullIdempotent == repeat => (exitCode = 0 /\ dir = dir0 /\ \A p \in DOMAIN written : dir0[p] = written[p])

\* a second run that follows a first run which changed the title of an edited record
C2_Witness ==
  /\ repeat /\ exitCode = 0
  /\ log[1].got.title = T2
  /\ HasKey(Record(dir, log[1].id), "hub_projekt")

\* C3: with a local record for id, pull(id) writes to the existing metadata and body
\* files and creates no file under a new name; without one, the names come from the
\* slug of the remote title
C3_PullKeepsFilenames ==
  PullReturned =>
    LET n == log[1].id
        slug == slugify(log[1].got.title)
    IN IF findIssueFiles(dir0, n) # NoFiles
       THEN DOMAIN dir = DOMAIN dir0 /\ DOMAIN written \subseteq DOMAIN dir0
       ELSE DOMAIN written = {DecStr(n) \o <<"-">> \o slug \o <<EXT_JSON>>,
                              DecStr(n) \o <<"-">> \o slug \o <<EXT_MD>>}

\* C4: the add command of push carries L - R and its remove commands R - L, L being
\* the labels of the local record and R those gh returned, and applying both to R
\* gives L
C4_LabelDiff ==
  \A i \in Events("view") :
    log[i].got # Failed =>
      LET L == Range(Get(Record(dir, log[i].id), "labels").l)
          R == Range(names(log[i].got.labels))
          added == UNION {Range(log[j].labels) : j \in Events("add")}
          removed == {log[j].label : j \in Events("remove")}
      IN /\ added = L \ R
         /\ removed = R \ L
         /\ (R \cup added) \ removed = L
         /\ Cardinality(Events("add")) <= 1
         /\ Cardinality(Events("remove")) = Cardinality(removed)

\* a push that both adds and removes a label
C4_Witness == cmd \in {"push", "pushAll"} /\ Events("add") # {} /\ Events("remove") # {}

\* C5: for a tracked id whose lookup succeeds, status reports in sync exactly when
\* the titles are equal, the states are equal ignoring case and the labels are equal
\* as sets
C5_StatusInSync ==
  \A i \in Events("report") :
    log[i].found =>
      LET local == Record(dir, log[i].id)
          gh == log[i].got
      IN log[i].inSync <=>
           /\ Get(local, "title") = Str(gh.title)
           /\ toLowerCase(Get(local, "state").s) = toLowerCase(gh.state)
           /\ Range(Get(local, "labels").l) = Range(names(gh.labels))

\* in sync with the labels in another order and the state in another case
C5_Witness ==
  \E i \in Events("report") :
    /\ log[i].found /\ log[i].inSync
    /\ Get(Record(dir, log[i].id), "labels").l # names(log[i].got.labels)
    /\ Get(Record(dir, log[i].id), "state").s # log[i].got.state

\* C6 as stated: the content writeMd writes ends with exactly one newline
C6_ExactlyOneNewline ==
  cmd = "writeMd" => TrailingNewlines(dir[BodyPath].text) = 1

\* C6, amended: writeMd writes the text with its trailing newlines kept, and one
\* newline added when it has none
C6_NewlineEnsured ==
  cmd = "writeMd" =>
    LET content == log[1].content
        text == dir[BodyPath].text
        n == TrailingNewlines(content)
    IN /\ TrailingNewlines(text) = (IF n = 0 THEN 1 ELSE n)
       /\ SubSeq(text, 1, Len(text) - TrailingNewlines(text)) = SubSeq(content, 1, Len(content) - n)

\* a text that already ends with several newlines
C6_Witness == cmd = "writeMd" /\ TrailingNewlines(log[1].content) >= 2 /\ Len(log[1].content) > 2

\* C7: create allocates max(tracked ids) + 1, or 1 without tracked ids: never a
\* tracked id; it overwrites no file and writes a record whose issue_number is null
C7_CreateNextNumber ==
  (cmd = "create" /\ pc = "exited") =>
    LET tracked == Range(findAllIssueNumbers(dir0))
        n == log[1].id
    IN /\ exitCode = 0
       /\ log[1].ev = "create"
       /\ IF tracked = {} THEN n = 1 ELSE n - 1 \in tracked
       /\ \A j \in tracked : j < n
       /\ n \notin tracked
       /\ MatchesIssue(log[1].path, n)
       /\ DOMAIN written \cap DOMAIN dir0 = {}
       /\ \A p \in DOMAIN dir0 : p \in DOMAIN dir /\ dir[p] = dir0[p]
       /\ Get(dir[log[1].path].data, "issue_number") = Null

\* a create in a directory whose tracked ids do not start at 1
C7_Witness ==
  /\ cmd = "create" /\ pc = "exited" /\ exitCode = 0
  /\ findAllIssueNumbers(dir0) # <<>>
  /\ 1 \notin Range(findAllIssueNumbers(dir0))

\* C8: pull --all takes the tracked ids in ascending order; when the fetch of id k
\* fails the process ends there with exit code 1, the files of the smaller tracked
\* ids written and still as written, no file of k or of a larger id changed
C8_PullAllStopsAtFailure ==
  cmd = "pullAll" =>
    /\ done \o queue = findAllIssueNumbers(dir0)
    /\ (log # <<>> /\ log[1].got = Failed) =>
         LET k == log[1].id
             Smaller(j) == j < k
         IN /\ pc = "exited" /\ exitCode = 1
            /\ done = SelectSeq(findAllIssueNumbers(dir0), Smaller)
            /\ \A j \in Range(done) :
                 {findIssueFiles(dir0, j).json, findIssueFiles(dir0, j).md} \subseteq DOMAIN written
            /\ \A p \in DOMAIN written : p \in DOMAIN dir /\ dir[p] = written[p]
            /\ \A p \in DOMAIN dir \cup DOMAIN dir0 :
                 FileNumber(p) >= k => p \in DOMAIN dir /\ p \in DOMAIN dir0 /\ dir[p] = dir0[p]

\* the fetch fails after the pull of a smaller id changed that id's files
C8_Witness ==
  /\ cmd = "pullAll" /\ pc = "exited" /\ exitCode = 1
  /\ log[1].got = Failed
  /\ done # <<>>
  /\ \E p \in DOMAIN written : p \in DOMAIN dir0 /\ dir0[p] # written[p]

\* C9: status reports every tracked id once, in ascending order; a failed lookup is
\* reported as not found and the loop goes on; no file is written, no issue edited
C9_StatusReportsAll ==
  cmd = "status" =>
    /\ done \o queue = findAllIssueNumbers(dir0)
    /\ pc = "exited" => queue = <<>> /\ exitCode = 0
    /\ dir = dir0 /\ written = <<>>
    /\ log # <<>> =>
         /\ Len(log) = 1 /\ log[1].ev = "report"
         /\ log[1].id = done[Len(done)]
         /\ log[1].found <=> log[1].got # Failed

\* a lookup failed, its id is reported as not found, and ids are left to process
C9_Witness ==
  /\ cmd = "status" /\ pc = "status"
  /\ log # <<>> /\ ~log[1].found
  /\ queue # <<>>

\* C10: push edits remote issue N only for a local record whose issue_number is N
C10_PushOnlyOwnIssue ==
  \A i \in Events("edit") :
    log[i].ok => Get(Record(dir, log[i].id), "issue_number") = Num(log[i].id)

====
